---------------------------- MODULE Spec2Model ----------------------------
(***************************************************************************)
(* A model of source_facebook_marketing/streams/streams.py:                *)
(*   - FBMarketingIncrementalStream: get_updated_state, request_params and *)
(*     _state_filter, driven by a caller that threads the stream state;    *)
(*   - FBMarketingStream.execute_in_batch / _execute_batch, a generator    *)
(*     driven by its consumer, against a batch transport whose execute()   *)
(*     settles each request as success, failure or "retry" residue.        *)
(*                                                                         *)
(* Values.  A timestamp string is a record [inst, off, fmt]: the instant   *)
(* it denotes (in ticks), its UTC offset and its textual form ("fb": the   *)
(* form the remote API returns, "iso": the form str() of a parsed          *)
(* datetime has).  A datetime is [inst, off].  A Python dict is a function *)
(* whose DOMAIN is the set of keys present.                                *)
(***************************************************************************)
EXTENDS Integers, Sequences, FiniteSets, TLC

\* ---------------------------------------------------------------- bounds
MaxInstant == 3        \* instants are 0..MaxInstant ticks
TicksPerSecond == 2    \* sub-second resolution of a datetime
MaxUpdates == 3        \* get_updated_state calls followed in one run

\* ------------------------------------------------------ program constants
page_size == 100
MAX_BATCH_SIZE == 50

cursor_field == "updated_time"

\* ----------------------------------------------------------------- values
Instants == 0..MaxInstant
Offsets == {0, -7}
Formats == {"fb", "iso"}
TimeStrings == [inst : Instants, off : Offsets, fmt : Formats]

\* pendulum.parse: the datetime a timestamp string denotes
parse(s) == [inst |-> s.inst, off |-> s.off]

\* str() of a datetime: always the ISO-8601 form, offset kept
str_datetime(d) == [inst |-> d.inst, off |-> d.off, fmt |-> "iso"]

\* DateTime.int_timestamp: whole epoch seconds
int_timestamp(d) == d.inst \div TicksPerSecond

\* Python's max(a, b) on datetimes: the first argument unless the second is
\* strictly later
\* mutant of max_datetime: the first argument whatever the second
max_datetime_first(a, b) == a

max_datetime(a, b) == IF b.inst > a.inst THEN b ELSE a

\* dict.get(key, default)
dict_get(d, key, default) == IF key \in DOMAIN d THEN d[key] ELSE default

EmptyDict == [k \in {} |-> TRUE]

\* ----------------------------------------------------------- stream kinds
IncrementalKinds == {"FBMarketingIncrementalStream", "Ads", "AdSets", "Campaigns", "Videos"}

enable_deleted(k) == k \in {"Ads", "AdSets", "Campaigns", "Videos"}

entity_prefix(k) ==
    CASE k = "Ads" -> "ad"
      [] k = "AdSets" -> "adset"
      [] k = "Campaigns" -> "campaign"
      [] k = "Videos" -> "video"
      [] k = "AdCreatives" -> "adcreative"
      [] OTHER -> "None"

\* mutant of init_include_deleted: enable_deleted is not consulted
init_include_deleted_unguarded(k, include_deleted) == include_deleted

\* FBMarketingStream.__init__: the effective include_deleted flag
init_include_deleted(k, include_deleted) ==
    IF enable_deleted(k) THEN include_deleted ELSE FALSE

VARIABLES
    kind,               \* the stream's class
    arg_include_deleted,\* the include_deleted constructor argument
    _include_deleted,   \* self._include_deleted
    _start_date,        \* self._start_date (a datetime)
    _end_date,          \* self._end_date (a datetime)
    stream_state,       \* the state the caller threads through the stream
    prior_state,        \* argument of the last get_updated_state call
    latest_record,      \* cursor value of the record of that call
    n_updates,          \* get_updated_state calls so far
    n_fired,            \* calls in which the include-deleted override fired
    params,             \* result of the last request_params call
    state_filter,       \* result of the last _state_filter call
    params_fresh,       \* TRUE while params is the result for the current stream_state
    passed_state        \* the mapping handed to the last call, as that call left it

stateVars == <<kind, arg_include_deleted, _include_deleted, _start_date, _end_date, stream_state,
               prior_state, latest_record, n_updates, n_fired, params, state_filter,
               params_fresh, passed_state>>

VARIABLES
    first_state,        \* the state the caller held before the first get_updated_state call
    max_record,         \* the latest instant among the records handed to get_updated_state, -1 if none
    pass_pc,            \* "idle", or "reading" while the caller is inside a read_records pass
    pass_completed      \* TRUE once a pass has run to its end

syncVars == <<first_state, max_record, pass_pc, pass_completed>>

VARIABLES
    _fetch_thumbnail_images, \* AdCreatives: self._fetch_thumbnail_images
    read_pc,            \* where read_records stands: "idle", "reading", "done", "raised"
    super_params,       \* what FBMarketingStream.request_params returned to read_records' call
    output,             \* the records read_records has yielded, in order
    fetch_log,          \* what each call of fetch_thumbnail_data_url so far got from requests.get
    retried             \* the requests that an execute() left for retry

readVars == <<_fetch_thumbnail_images, read_pc, super_params, output, fetch_log, retried>>

\* ------------------------------------------- FBMarketingIncrementalStream
\* the condition computed on lines 166 and 189
potentially_new_records_in_the_past(self_include_deleted, state) ==
    self_include_deleted /\ ~dict_get(state, "include_deleted", FALSE)

\* mutant of get_updated_state: the record's value always replaces the cursor
get_updated_state_always_record(self_include_deleted, current_stream_state, record_value) ==
    [updated_time |-> record_value, include_deleted |-> self_include_deleted]

\* mutant of get_updated_state: the override of lines 170-171 is missing
get_updated_state_no_override(self_include_deleted, current_stream_state, record_value) ==
    LET state_value == IF cursor_field \in DOMAIN current_stream_state
                       THEN current_stream_state[cursor_field]
                       ELSE record_value
        max_cursor == max_datetime(parse(state_value), parse(record_value))
    IN [updated_time |-> str_datetime(max_cursor), include_deleted |-> self_include_deleted]

\* mutant of get_updated_state: include_deleted is not stamped into the result
get_updated_state_no_stamp(self_include_deleted, current_stream_state, record_value) ==
    LET state_value == IF cursor_field \in DOMAIN current_stream_state
                       THEN current_stream_state[cursor_field]
                       ELSE record_value
        max_cursor == max_datetime(parse(state_value), parse(record_value))
    IN [updated_time |-> IF potentially_new_records_in_the_past(self_include_deleted,
                                                                current_stream_state)
                         THEN record_value
                         ELSE str_datetime(max_cursor)]

\* mutant of get_updated_state: the override keeps the cursor of the state
get_updated_state_override_keeps_cursor(self_include_deleted, current_stream_state, record_value) ==
    LET state_value == IF cursor_field \in DOMAIN current_stream_state
                       THEN current_stream_state[cursor_field]
                       ELSE record_value
        max_cursor == max_datetime(parse(state_value), parse(record_value))
    IN [updated_time |-> IF potentially_new_records_in_the_past(self_include_deleted,
                                                                current_stream_state)
                         THEN state_value
                         ELSE str_datetime(max_cursor),
        include_deleted |-> self_include_deleted]

get_updated_state(self_include_deleted, current_stream_state, record_value) ==
    LET state_value == IF cursor_field \in DOMAIN current_stream_state
                       THEN current_stream_state[cursor_field]
                       ELSE record_value
        max_cursor == max_datetime(parse(state_value), parse(record_value))
    IN [updated_time |-> IF potentially_new_records_in_the_past(self_include_deleted,
                                                                current_stream_state)
                         THEN record_value
                         ELSE str_datetime(max_cursor),
        include_deleted |-> self_include_deleted]


\* ------------------------------------------------------- FBMarketingStream
\* f"{entity_prefix}.{name}"
field_name(prefix, name) == <<prefix, name>>

filt_values ==
    <<"active", "archived", "completed", "limited", "not_delivering", "deleted",
      "not_published", "pending_review", "permanently_deleted", "recently_completed",
      "recently_rejected", "rejected", "scheduled", "inactive">>

_filter_all_statuses(k) ==
    [filtering |-> <<[field |-> field_name(entity_prefix(k), "delivery_info"),
                      operator |-> "IN",
                      value |-> filt_values]>>]

\* dict.update(other)
dict_update(d, other) ==
    [key \in DOMAIN d \cup DOMAIN other |-> IF key \in DOMAIN other THEN other[key] ELSE d[key]]

\* mutant of base_request_params: the status filter is added whatever the setting
base_request_params_always_statuses(k, self_include_deleted) ==
    dict_update([limit |-> page_size], _filter_all_statuses(k))

\* FBMarketingStream.request_params
base_request_params(k, self_include_deleted) ==
    LET limit_only == [limit |-> page_size]
    IN IF self_include_deleted
       THEN dict_update(limit_only, _filter_all_statuses(k))
       ELSE limit_only

\* mutant of deep_merge: a plain update, the second value always wins
deep_merge_shallow(a, b) ==
    [key \in DOMAIN a \cup DOMAIN b |-> IF key \in DOMAIN b THEN b[key] ELSE a[key]]

\* common.deep_merge on two dicts: keys of both, lists concatenated, otherwise
\* the second value wins
deep_merge(a, b) ==
    [key \in DOMAIN a \cup DOMAIN b |->
        IF key \in DOMAIN a /\ key \in DOMAIN b
        THEN (IF key = "filtering" THEN a[key] \o b[key] ELSE b[key])
        ELSE IF key \in DOMAIN b THEN b[key] ELSE a[key]]

\* mutant of _state_filter: the recorded cursor is used whenever there is one
_state_filter_keeps_bookmark(k, self_include_deleted, start_date, state) ==
    LET filter_value == IF cursor_field \notin DOMAIN state
                        THEN start_date
                        ELSE parse(state[cursor_field])
    IN [filtering |-> <<[field |-> field_name(entity_prefix(k), cursor_field),
                         operator |-> "GREATER_THAN",
                         value |-> int_timestamp(filter_value)]>>]

\* FBMarketingIncrementalStream._state_filter
_state_filter(k, self_include_deleted, start_date, state) ==
    LET filter_value == IF cursor_field \notin DOMAIN state
                        THEN start_date
                        ELSE parse(state[cursor_field])
        threshold == IF potentially_new_records_in_the_past(self_include_deleted, state)
                     THEN start_date
                     ELSE filter_value
    IN [filtering |-> <<[field |-> field_name(entity_prefix(k), cursor_field),
                         operator |-> "GREATER_THAN",
                         value |-> int_timestamp(threshold)]>>]

\* FBMarketingIncrementalStream.request_params
request_params(k, self_include_deleted, start_date, state) ==
    deep_merge(base_request_params(k, self_include_deleted),
               _state_filter(k, self_include_deleted, start_date, state))

\* mutant of state_after_get_updated_state: the cursor is written into the
\* mapping that was passed
state_after_get_updated_state_in_place(current_stream_state, record_value) ==
    dict_update(current_stream_state, [updated_time |-> record_value])

\* the mapping passed to get_updated_state, after the call: lines 166 and 168
\* read it with .get and line 173 builds a new dict
state_after_get_updated_state(current_stream_state, record_value) == current_stream_state

\* the mapping passed to request_params, after the call: line 181 passes it
\* (or a new {}) on and lines 186 and 189 read it with .get
state_after_request_params(state) == state

\* -------------------------------------------------------- batch execution
\* bounds of the batch runs
MaxRequests == 120     \* the longest list of pending requests
MaxFaulty == 2         \* see MayFault
MaxFaults == 2         \* failures and retries the transport produces in one run

VARIABLES
    n_pending,          \* pending_requests holds the requests 1..n_pending, in listing order
    next_request,       \* the next request the for loop will take
    api_batch,          \* api_batch: the requests added to the current batch
    batch,              \* the local 'batch' of _execute_batch
    records,            \* the list the success callback appends to
    yield_pos,          \* position of 'yield from records'
    pc,                 \* where execute_in_batch stands
    final,              \* TRUE once the for loop has ended (lines 93-94)
    yielded,            \* the payloads handed to the consumer, in order
    succeeded,          \* the payloads handed to the success callback, in order
    failed,             \* the requests handed to the failure callback
    exec_log,           \* one entry per batch.execute() call: the requests executed
                        \* and the residue returned
    faults_left         \* failures and retries the transport may still produce

batchVars == <<n_pending, next_request, api_batch, batch, records, yield_pos, pc, final,
               yielded, succeeded, failed, exec_log, faults_left>>

PendingCounts ==
    {0, 1, MAX_BATCH_SIZE - 1, MAX_BATCH_SIZE, MAX_BATCH_SIZE + 1, 2 * MAX_BATCH_SIZE, MaxRequests}

\* the success callback (lines 77-78): the payload of request r is r
success(recs, response) == Append(recs, response)

\* mutant of failure: the failed response is recorded like a payload
failure_records_response(recs, response) == Append(recs, response)

\* the failure callback (lines 80-82): a warning, nothing else
failure(recs, response) == recs

\* mutant of batch_is_full: the batch is executed one request late
batch_is_full_one_late(b) == Len(b) > MAX_BATCH_SIZE

\* line 87
batch_is_full(b) == Len(b) = MAX_BATCH_SIZE

\* line 68, on entry: 'while batch', a batch being true when it holds a request
batch_is_true(b) == Len(b) > 0

\* mutant of execute_again: the batch is executed once, the residue dropped
execute_again_never(b) == FALSE

\* line 68, after an execute(): 'while batch' on what execute() returned
execute_again(b) == Len(b) > 0

\* mutant of new_batch: the executed batch is kept
new_batch_kept(old) == old

\* line 90: api.new_batch()
new_batch(old) == <<>>

\* mutant of new_records: the yielded records are kept
new_records_kept(old) == old

\* line 91: records = []
new_records(old) == <<>>

\* batch.execute() on request r: its success callback, its failure callback,
\* or neither when r is left for retry; the result is what the callback added
\* to an empty list
callback_added(r, failing, retrying) ==
    IF r \in failing THEN failure(<<>>, r)
    ELSE IF r \in retrying THEN <<>>
    ELSE success(<<>>, r)

\* batch.execute(): the callbacks run in request order, each adding at most
\* one element to the list
run_callbacks(b, failing, retrying, recs) ==
    LET adding == SelectSeq(b, LAMBDA r : callback_added(r, failing, retrying) # <<>>)
    IN recs \o [i \in 1..Len(adding) |-> callback_added(adding[i], failing, retrying)[1]]

\* batch.execute(): the batch of the requests left for retry
residue(b, retrying) == SelectSeq(b, LAMBDA r : r \in retrying)

Prefix(b, n) == SubSeq(b, 1, IF n < Len(b) THEN n ELSE Len(b))

SeqToSet(q) == {q[i] : i \in 1..Len(q)}

\* the requests of an executed batch the transport may fail or leave for
\* retry: its first MaxFaulty and its last
MayFault(b) == SeqToSet(Prefix(b, MaxFaulty)) \cup {b[Len(b)]}

BatchIdle ==
    /\ n_pending = 0
    /\ next_request = 1
    /\ api_batch = <<>>
    /\ batch = <<>>
    /\ records = <<>>
    /\ yield_pos = 1
    /\ pc = "idle"
    /\ final = FALSE
    /\ yielded = <<>>
    /\ succeeded = <<>>
    /\ failed = {}
    /\ exec_log = <<>>
    /\ faults_left = 0

\* execute_in_batch up to its for loop (lines 75-85)
InitBatch ==
    /\ n_pending \in PendingCounts
    /\ next_request = 1
    /\ api_batch = <<>>
    /\ batch = <<>>
    /\ records = <<>>
    /\ yield_pos = 1
    /\ pc = "iterate"
    /\ final = FALSE
    /\ yielded = <<>>
    /\ succeeded = <<>>
    /\ failed = {}
    /\ exec_log = <<>>
    /\ faults_left = MaxFaults

\* _execute_batch(b) is entered: with an empty batch its loop body never runs
EnterExecuteBatch(b) ==
    /\ batch' = b
    /\ IF batch_is_true(b)
       THEN pc' = "execute" /\ UNCHANGED yield_pos
       ELSE pc' = "yield" /\ yield_pos' = 1

\* lines 85-88: the for loop takes a request and adds it to the batch
AddRequest ==
    /\ pc = "iterate"
    /\ next_request <= n_pending
    /\ api_batch' = Append(api_batch, next_request)
    /\ next_request' = next_request + 1
    /\ IF batch_is_full(api_batch')
       THEN EnterExecuteBatch(api_batch')
       ELSE UNCHANGED <<batch, pc, yield_pos>>
    /\ UNCHANGED <<n_pending, records, final, yielded, succeeded, failed, exec_log,
                   faults_left>>
    /\ UNCHANGED <<stateVars, syncVars, readVars>>

\* line 93: the for loop has ended
EndOfRequests ==
    /\ pc = "iterate"
    /\ next_request > n_pending
    /\ final' = TRUE
    /\ EnterExecuteBatch(api_batch)
    /\ UNCHANGED <<n_pending, next_request, api_batch, records, yielded, succeeded, failed,
                   exec_log, faults_left>>
    /\ UNCHANGED <<stateVars, syncVars, readVars>>

\* lines 69-70: batch.execute() returns, having run the callbacks of the
\* requests it settled; the loop goes on with the residue
ExecuteOutcome(failing, retrying) ==
    /\ records' = run_callbacks(batch, failing, retrying, records)
    /\ succeeded' = run_callbacks(batch, failing, retrying, succeeded)
    /\ failed' = failed \cup failing
    /\ batch' = residue(batch, retrying)
    /\ IF execute_again(residue(batch, retrying))
       THEN pc' = "execute" /\ UNCHANGED yield_pos
       ELSE pc' = "yield" /\ yield_pos' = 1

\* lines 68-71: one batch.execute() of the while loop
ExecuteBatch ==
    /\ pc = "execute"
    /\ batch_is_true(batch)
    /\ \E failing \in SUBSET MayFault(batch) :
       \E retrying \in SUBSET (MayFault(batch) \ failing) :
        /\ Cardinality(failing) + Cardinality(retrying) <= faults_left
        /\ faults_left' = faults_left - Cardinality(failing) - Cardinality(retrying)
        /\ ExecuteOutcome(failing, retrying)
        /\ exec_log' = Append(exec_log, [requests |-> batch,
                                         residue |-> residue(batch, retrying)])
    /\ UNCHANGED <<n_pending, next_request, api_batch, final, yielded>>
    /\ UNCHANGED <<stateVars, syncVars, readVars>>

\* lines 89 and 94: 'yield from records' hands over one payload
YieldRecord ==
    /\ pc = "yield"
    /\ yield_pos <= Len(records)
    /\ yielded' = Append(yielded, records[yield_pos])
    /\ yield_pos' = yield_pos + 1
    /\ UNCHANGED <<n_pending, next_request, api_batch, batch, records, pc, final, succeeded,
                   failed, exec_log, faults_left>>
    /\ UNCHANGED <<stateVars, syncVars, readVars>>

\* lines 90-91: after the last payload of a full batch, a fresh batch
StartFreshBatch ==
    /\ pc = "yield"
    /\ yield_pos > Len(records)
    /\ ~final
    /\ api_batch' = new_batch(api_batch)
    /\ records' = new_records(records)
    /\ pc' = "iterate"
    /\ UNCHANGED <<n_pending, next_request, batch, yield_pos, final, yielded, succeeded,
                   failed, exec_log, faults_left>>
    /\ UNCHANGED <<stateVars, syncVars, readVars>>

\* the generator returns after line 94
Finish ==
    /\ pc = "yield"
    /\ yield_pos > Len(records)
    /\ final
    /\ pc' = "done"
    /\ UNCHANGED <<n_pending, next_request, api_batch, batch, records, yield_pos, final,
                   yielded, succeeded, failed, exec_log, faults_left>>
    /\ UNCHANGED <<stateVars, syncVars, readVars>>

\* ------------------------------------------------- the incremental stream
NoRecord == [inst |-> 0, off |-> 0, fmt |-> "fb"]

\* the states a caller may hold: {} on a first sync, or what an earlier sync
\* (of this or an older configuration) left
PriorStates ==
    {EmptyDict}
    \cup [include_deleted : BOOLEAN]
    \cup [updated_time : TimeStrings]
    \cup [updated_time : TimeStrings, include_deleted : BOOLEAN]

InitState ==
    /\ kind \in IncrementalKinds
    /\ arg_include_deleted \in BOOLEAN
    /\ _include_deleted = init_include_deleted(kind, arg_include_deleted)
    /\ _start_date \in [inst : Instants, off : {0}]
    /\ _end_date = [inst |-> MaxInstant, off |-> 0]
    /\ stream_state \in PriorStates
    /\ prior_state = EmptyDict
    /\ latest_record = NoRecord
    /\ n_updates = 0
    /\ n_fired = 0
    /\ params = EmptyDict
    /\ state_filter = EmptyDict
    /\ params_fresh = FALSE
    /\ passed_state = EmptyDict

\* the caller hands a record and the current state to get_updated_state and
\* keeps the returned state
GetUpdatedStateCall ==
    /\ n_updates < MaxUpdates
    /\ \E record_value \in TimeStrings :
        /\ stream_state' = get_updated_state(_include_deleted, stream_state, record_value)
        /\ latest_record' = record_value
        /\ passed_state' = state_after_get_updated_state(stream_state, record_value)
    /\ prior_state' = stream_state
    /\ n_updates' = n_updates + 1
    /\ n_fired' = IF potentially_new_records_in_the_past(_include_deleted, stream_state)
                  THEN n_fired + 1 ELSE n_fired
    /\ params_fresh' = FALSE
    /\ UNCHANGED <<kind, arg_include_deleted, _include_deleted, _start_date, _end_date,
                   params, state_filter>>

GetUpdatedState == GetUpdatedStateCall /\ UNCHANGED <<batchVars, syncVars, readVars>>

\* the caller asks for the request parameters of the current state
RequestParamsCall ==
    /\ params' = request_params(kind, _include_deleted, _start_date, stream_state)
    /\ state_filter' = _state_filter(kind, _include_deleted, _start_date, stream_state)
    /\ params_fresh' = TRUE
    /\ passed_state' = state_after_request_params(stream_state)
    /\ UNCHANGED <<kind, arg_include_deleted, _include_deleted, _start_date, _end_date,
                   stream_state, prior_state, latest_record, n_updates, n_fired>>

RequestParams == RequestParamsCall /\ UNCHANGED <<batchVars, syncVars, readVars>>

\* a stream that runs execute_in_batch and is never asked for state
InitStateIdle ==
    /\ kind = "AdCreatives"
    /\ arg_include_deleted = FALSE
    /\ _include_deleted = init_include_deleted(kind, arg_include_deleted)
    /\ _start_date = [inst |-> 0, off |-> 0]
    /\ _end_date = [inst |-> MaxInstant, off |-> 0]
    /\ stream_state = EmptyDict
    /\ prior_state = EmptyDict
    /\ latest_record = NoRecord
    /\ n_updates = 0
    /\ n_fired = 0
    /\ params = EmptyDict
    /\ state_filter = EmptyDict
    /\ params_fresh = FALSE
    /\ passed_state = EmptyDict

\* no pass is followed
SyncIdle ==
    /\ first_state = EmptyDict
    /\ max_record = -1
    /\ pass_pc = "idle"
    /\ pass_completed = FALSE

\* read_records is not called
ReadIdle ==
    /\ _fetch_thumbnail_images = FALSE
    /\ read_pc = "idle"
    /\ super_params = EmptyDict
    /\ output = <<>>
    /\ fetch_log = <<>>
    /\ retried = {}

vars == <<stateVars, batchVars, syncVars, readVars>>

\* an incremental stream and the caller threading its state
Init == InitState /\ BatchIdle /\ SyncIdle /\ ReadIdle

Next == GetUpdatedState \/ RequestParams

Spec == Init /\ [][Next]_vars

\* one run of execute_in_batch
InitB == InitStateIdle /\ InitBatch /\ SyncIdle /\ ReadIdle

NextB == AddRequest \/ EndOfRequests \/ ExecuteBatch \/ YieldRecord \/ StartFreshBatch \/ Finish

SpecBatch == InitB /\ [][NextB]_vars

\* ------------------------------------------------------------ read_records
ReadCounts == {0, 1, 2, MAX_BATCH_SIZE + 1}

ReadKinds == IncrementalKinds \cup {"AdCreatives"}

use_batch(k) == k = "AdCreatives"

\* the states read_records is handed
ReadStates ==
    {EmptyDict,
     [updated_time |-> [inst |-> MaxInstant, off |-> 0, fmt |-> "fb"], include_deleted |-> FALSE]}

Null == "None"

\* what requests.get(url) comes to: a 200 response, another response, a
\* RequestException, or a 200 response without a content-type header
ThumbnailResponses == {"OK", "NOT_FOUND", "RequestException", "OK_no_content_type"}

\* mutant of fetch_thumbnail_data_url: a data URL whatever the response
fetch_thumbnail_data_url_any_response(response) == "data_url"

\* fetch_thumbnail_data_url where it returns (lines 31-39)
fetch_thumbnail_data_url(response) ==
    IF response = "OK" THEN "data_url" ELSE Null

\* record[key] = value
set_item(record, key, value) ==
    [k \in DOMAIN record \cup {key} |-> IF k = key THEN value ELSE record[k]]

\* the record of listed entity r: response.json() in batch mode,
\* export_all_data() in inline mode
Record(r) == [id |-> r]

\* the entities whose detail fetch or thumbnail fetch may go wrong
MayFail(r) == r <= MaxFaulty \/ r = n_pending

InitRead ==
    /\ kind \in ReadKinds
    /\ arg_include_deleted \in BOOLEAN
    /\ _include_deleted = init_include_deleted(kind, arg_include_deleted)
    /\ _start_date = [inst |-> 1, off |-> 0]
    /\ _end_date = [inst |-> MaxInstant, off |-> 0]
    /\ stream_state \in IF kind \in IncrementalKinds THEN ReadStates ELSE {EmptyDict}
    /\ prior_state = EmptyDict
    /\ latest_record = NoRecord
    /\ n_updates = 0
    /\ n_fired = 0
    /\ params = EmptyDict
    /\ state_filter = EmptyDict
    /\ params_fresh = FALSE
    /\ passed_state = EmptyDict
    /\ SyncIdle
    \* FBMarketingIncrementalStream itself lists nothing (line 119)
    /\ n_pending \in IF kind = "FBMarketingIncrementalStream" THEN {0} ELSE ReadCounts
    /\ next_request = 1
    /\ api_batch = <<>>
    /\ batch = <<>>
    /\ records = <<>>
    /\ yield_pos = 1
    /\ pc = "idle"
    /\ final = FALSE
    /\ yielded = <<>>
    /\ succeeded = <<>>
    /\ failed = {}
    /\ exec_log = <<>>
    /\ faults_left = MaxFaults
    /\ _fetch_thumbnail_images \in IF kind = "AdCreatives" THEN BOOLEAN ELSE {FALSE}
    /\ read_pc = "idle"
    /\ super_params = EmptyDict
    /\ output = <<>>
    /\ fetch_log = <<>>
    /\ retried = {}

\* lines 104-107: the parameters are computed, the listing is issued and, in
\* batch mode, execute_in_batch is entered
StartRead ==
    /\ read_pc = "idle"
    /\ read_pc' = "reading"
    /\ super_params' = base_request_params(kind, _include_deleted)
    /\ IF kind \in IncrementalKinds
       THEN RequestParamsCall
       ELSE /\ params' = base_request_params(kind, _include_deleted)
            /\ UNCHANGED <<kind, arg_include_deleted, _include_deleted, _start_date, _end_date,
                           stream_state, prior_state, latest_record, n_updates, n_fired,
                           state_filter, params_fresh, passed_state>>
    /\ pc' = IF use_batch(kind) THEN "iterate" ELSE pc
    /\ UNCHANGED <<n_pending, next_request, api_batch, batch, records, yield_pos, final,
                   yielded, succeeded, failed, exec_log, faults_left>>
    /\ UNCHANGED <<_fetch_thumbnail_images, output, fetch_log, retried>>
    /\ UNCHANGED syncVars

\* inline mode, lines 105 and 109-111: api_get loads the next listed entity
\* and its exported data is yielded, or api_get raises
InlineLoad ==
    /\ read_pc = "reading"
    /\ ~use_batch(kind)
    /\ next_request <= n_pending
    /\ \/ /\ output' = Append(output, Record(next_request))
          /\ next_request' = next_request + 1
          /\ UNCHANGED <<read_pc, faults_left>>
       \/ /\ faults_left > 0
          /\ MayFail(next_request)
          /\ faults_left' = faults_left - 1
          /\ read_pc' = "raised"
          /\ UNCHANGED <<output, next_request>>
    /\ UNCHANGED <<n_pending, api_batch, batch, records, yield_pos, pc, final, yielded,
                   succeeded, failed, exec_log>>
    /\ UNCHANGED <<_fetch_thumbnail_images, super_params, fetch_log, retried>>
    /\ UNCHANGED <<stateVars, syncVars>>

\* inline mode: the listing is exhausted and read_records returns
InlineEnd ==
    /\ read_pc = "reading"
    /\ ~use_batch(kind)
    /\ next_request > n_pending
    /\ read_pc' = "done"
    /\ UNCHANGED <<_fetch_thumbnail_images, super_params, output, fetch_log, retried>>
    /\ UNCHANGED <<stateVars, batchVars, syncVars>>

\* the generator of execute_in_batch runs only while its consumer asks for
\* the next record
Consumed == read_pc = "reading" /\ use_batch(kind) /\ Len(output) = Len(yielded)

ReadAddRequest == Consumed /\ AddRequest

ReadEndOfRequests == Consumed /\ EndOfRequests

\* line 69: batch.execute() is called and the requests are sent
SendBatch ==
    /\ Consumed
    /\ pc = "execute"
    /\ batch_is_true(batch)
    /\ pc' = "executing"
    /\ UNCHANGED <<n_pending, next_request, api_batch, batch, records, yield_pos, final,
                   yielded, succeeded, failed, exec_log, faults_left>>
    /\ UNCHANGED <<stateVars, syncVars, readVars>>

\* lines 69-70: batch.execute() returns; a request may be left for retry any
\* number of times
ReceiveBatch ==
    /\ pc = "executing"
    /\ \E failing \in SUBSET MayFault(batch) :
       \E retrying \in SUBSET (MayFault(batch) \ failing) :
        /\ Cardinality(failing) + Cardinality(retrying \ retried) <= faults_left
        /\ faults_left' = faults_left - Cardinality(failing) - Cardinality(retrying \ retried)
        /\ ExecuteOutcome(failing, retrying)
        /\ retried' = retried \cup retrying
    /\ UNCHANGED <<n_pending, next_request, api_batch, final, yielded, exec_log>>
    /\ UNCHANGED <<_fetch_thumbnail_images, read_pc, super_params, output, fetch_log>>
    /\ UNCHANGED <<stateVars, syncVars>>

ReadYieldRecord == Consumed /\ YieldRecord

ReadStartFreshBatch == Consumed /\ StartFreshBatch

ReadFinish == Consumed /\ Finish

\* lines 109-113 and 231-234: the payload execute_in_batch handed over is
\* given its thumbnail, when asked for, and yielded
YieldToCaller ==
    /\ read_pc = "reading"
    /\ use_batch(kind)
    /\ Len(output) < Len(yielded)
    /\ LET record == Record(yielded[Len(output) + 1])
       IN IF _fetch_thumbnail_images
          THEN \E response \in ThumbnailResponses :
                /\ response # "OK" => (faults_left > 0 /\ MayFail(record.id))
                /\ faults_left' = IF response = "OK" THEN faults_left ELSE faults_left - 1
                /\ fetch_log' = Append(fetch_log, response)
                /\ IF response = "OK_no_content_type"
                   THEN read_pc' = "raised" /\ UNCHANGED output
                   ELSE /\ output' = Append(output,
                                            set_item(record, "thumbnail_data_url",
                                                     fetch_thumbnail_data_url(response)))
                        /\ UNCHANGED read_pc
          ELSE /\ output' = Append(output, record)
               /\ UNCHANGED <<faults_left, fetch_log, read_pc>>
    /\ UNCHANGED <<n_pending, next_request, api_batch, batch, records, yield_pos, pc, final,
                   yielded, succeeded, failed, exec_log>>
    /\ UNCHANGED <<_fetch_thumbnail_images, super_params, retried>>
    /\ UNCHANGED <<stateVars, syncVars>>

\* batch mode: execute_in_batch is exhausted and read_records returns
ReturnFromRead ==
    /\ read_pc = "reading"
    /\ pc = "done"
    /\ read_pc' = "done"
    /\ UNCHANGED <<_fetch_thumbnail_images, super_params, output, fetch_log, retried>>
    /\ UNCHANGED <<stateVars, batchVars, syncVars>>

\* one read_records invocation
NextR ==
    \/ StartRead
    \/ InlineLoad
    \/ InlineEnd
    \/ ReadAddRequest
    \/ ReadEndOfRequests
    \/ SendBatch
    \/ ReceiveBatch
    \/ ReadYieldRecord
    \/ ReadStartFreshBatch
    \/ ReadFinish
    \/ YieldToCaller
    \/ ReturnFromRead

SpecRead == InitRead /\ [][NextR]_vars

\* the invocation is never left half-way: whatever step it can take, it takes
SpecReadLive == SpecRead /\ WF_vars(NextR)

\* ------------------------------------------------------- a caller's passes
SyncKinds == {"Ads", "FBMarketingIncrementalStream"}

\* the states a caller may hold when its first pass starts: those of
\* PriorStates whose cursor, if any, is in the form the API gives
SyncStates ==
    {state \in PriorStates :
        cursor_field \in DOMAIN state
            => (state[cursor_field].off = 0 /\ state[cursor_field].fmt = "fb")}

InitSync ==
    /\ kind \in SyncKinds
    /\ arg_include_deleted \in BOOLEAN
    /\ _include_deleted = init_include_deleted(kind, arg_include_deleted)
    /\ _start_date = [inst |-> 0, off |-> 0]
    /\ _end_date = [inst |-> MaxInstant, off |-> 0]
    /\ stream_state \in SyncStates
    /\ prior_state = EmptyDict
    /\ latest_record = NoRecord
    /\ n_updates = 0
    /\ n_fired = 0
    /\ params = EmptyDict
    /\ state_filter = EmptyDict
    /\ params_fresh = FALSE
    /\ passed_state = EmptyDict
    /\ first_state = stream_state
    /\ max_record = -1
    /\ pass_pc = "idle"
    /\ pass_completed = FALSE
    /\ BatchIdle
    /\ ReadIdle

\* the caller invokes read_records with the state it holds: line 104 asks
\* request_params for the parameters of the listing (passes are followed up
\* to the first that runs to its end)
StartPass ==
    /\ pass_pc = "idle"
    /\ ~pass_completed
    /\ RequestParamsCall
    /\ pass_pc' = "reading"
    /\ UNCHANGED <<first_state, max_record, pass_completed>>
    /\ UNCHANGED <<batchVars, readVars>>

\* the caller hands the next record of the pass to get_updated_state
ProcessRecord ==
    /\ pass_pc = "reading"
    /\ GetUpdatedStateCall
    /\ max_record' = IF latest_record'.inst > max_record THEN latest_record'.inst ELSE max_record
    /\ UNCHANGED <<first_state, pass_pc, pass_completed>>
    /\ UNCHANGED <<batchVars, readVars>>

\* the pass is cut short; the caller keeps the state it last checkpointed
InterruptPass ==
    /\ pass_pc = "reading"
    /\ pass_pc' = "idle"
    /\ UNCHANGED <<first_state, max_record, pass_completed>>
    /\ UNCHANGED <<stateVars, batchVars, readVars>>

\* read_records is exhausted: the pass has run to its end
CompletePass ==
    /\ pass_pc = "reading"
    /\ pass_pc' = "idle"
    /\ pass_completed' = TRUE
    /\ UNCHANGED <<first_state, max_record>>
    /\ UNCHANGED <<stateVars, batchVars, readVars>>

NextSync == StartPass \/ ProcessRecord \/ InterruptPass \/ CompletePass

SpecSync == InitSync /\ [][NextSync]_vars

\* ------------------------------------------------------------------ claims
\* what the last get_updated_state call was given and returned
Updated == n_updates > 0
HasCursor(state) == cursor_field \in DOMAIN state
CursorInstant(state) == parse(state[cursor_field]).inst
OverrideFired == Updated /\ _include_deleted /\ ~dict_get(prior_state, "include_deleted", FALSE)

\* C1: when the prior state has a cursor C and its include_deleted flag equals
\* the stream's include_deleted setting, the state get_updated_state returns
\* has a cursor chronologically >= C.
C1_CursorNotBelowPrior ==
    (/\ Updated
     /\ HasCursor(prior_state)
     /\ \/ dict_get(prior_state, "include_deleted", FALSE) = _include_deleted
        \/ dict_get(prior_state, "include_deleted", FALSE) = arg_include_deleted)
    => CursorInstant(stream_state) >= CursorInstant(prior_state)

\* C1's case: include_deleted set on both sides, a record older than the cursor
C1_Witness ==
    /\ Updated
    /\ HasCursor(prior_state)
    /\ _include_deleted
    /\ dict_get(prior_state, "include_deleted", FALSE) = TRUE
    /\ latest_record.inst < CursorInstant(prior_state)
    /\ CursorInstant(stream_state) = CursorInstant(prior_state)

\* C2: when the stream has include_deleted in effect and the prior state has it
\* false or absent, the returned cursor is exactly the record's own cursor
\* value (the very string), whatever the prior cursor was.
C2_OverrideTakesRecordValue ==
    OverrideFired => stream_state[cursor_field] = latest_record

\* C2's case: the override fires and the cursor moves back, to a string that
\* is not the str() form
C2_Witness ==
    /\ OverrideFired
    /\ HasCursor(prior_state)
    /\ CursorInstant(stream_state) < CursorInstant(prior_state)
    /\ stream_state[cursor_field].fmt = "fb"

\* the threshold C3 states for a state
ExpectedThreshold(state) ==
    IF ~HasCursor(state) THEN _start_date
    ELSE IF _include_deleted /\ ("include_deleted" \notin DOMAIN state \/ ~state["include_deleted"])
         THEN _start_date
         ELSE parse(state[cursor_field])

IsCursorClause(clause, state) ==
    /\ clause.field = <<entity_prefix(kind), "updated_time">>
    /\ clause.operator = "GREATER_THAN"
    /\ clause.value = int_timestamp(ExpectedThreshold(state))

\* C3: the GREATER_THAN clause request_params builds is on
\* '{entity_prefix}.{cursor_field}', is always there, and its value is the epoch
\* of startDate when the state has no cursor or when include_deleted is in
\* effect and the state has it false or absent, and of the recorded cursor
\* otherwise.
C3_StateFilterThreshold ==
    params_fresh =>
        /\ DOMAIN state_filter = {"filtering"}
        /\ Len(state_filter.filtering) = 1
        /\ IsCursorClause(state_filter.filtering[1], stream_state)
        /\ "filtering" \in DOMAIN params
        /\ Len(params.filtering) >= 1
        /\ IsCursorClause(params.filtering[Len(params.filtering)], stream_state)

\* C3's case: a recorded cursor that the newly enabled include_deleted makes
\* request_params ignore
C3_Witness ==
    /\ params_fresh
    /\ HasCursor(stream_state)
    /\ _include_deleted
    /\ "include_deleted" \in DOMAIN stream_state
    /\ ~stream_state["include_deleted"]
    /\ int_timestamp(parse(stream_state[cursor_field])) # int_timestamp(_start_date)
    /\ state_filter.filtering[1].value = int_timestamp(_start_date)

\* C4: along a chain of get_updated_state calls, each fed the state the one
\* before returned, the override fires in the first call or never, and a call
\* in which it does not fire never lowers the cursor.
C4_OverrideOnlyFirst ==
    /\ n_fired <= 1
    /\ OverrideFired => n_updates = 1
    /\ (Updated /\ ~OverrideFired /\ HasCursor(prior_state))
       => CursorInstant(stream_state) >= CursorInstant(prior_state)

\* C4's case: the override fired and further calls followed
C4_Witness ==
    /\ n_fired = 1
    /\ n_updates >= 2
    /\ CursorInstant(stream_state) > CursorInstant(prior_state)

\* C5: the returned state carries include_deleted, equal to the stream's
\* effective setting (the constructor argument for a kind that supports deleted
\* inclusion, false otherwise), so the override condition is false for it.
C5_StateStampedWithSetting ==
    Updated =>
        /\ "include_deleted" \in DOMAIN stream_state
        /\ stream_state["include_deleted"] = _include_deleted
        /\ _include_deleted = (enable_deleted(kind) /\ arg_include_deleted)
        /\ ~potentially_new_records_in_the_past(_include_deleted, stream_state)

\* C5's case: a kind without deleted inclusion, built with include_deleted, fed
\* a state that says true
C5_Witness ==
    /\ Updated
    /\ ~enable_deleted(kind)
    /\ arg_include_deleted
    /\ dict_get(prior_state, "include_deleted", FALSE) = TRUE
    /\ stream_state["include_deleted"] = FALSE

\* what the batch.execute() calls so far were given
ExecSizes == [k \in 1..Len(exec_log) |-> Len(exec_log[k].requests)]
NoResidue == \A k \in 1..Len(exec_log) : exec_log[k].residue = <<>>
Range(first, size) == [i \in 1..size |-> first + i - 1]
BatchOf(r) == (r - 1) \div MAX_BATCH_SIZE
\* size of the k-th of the consecutive groups of at most 50 that n requests form
GroupSize(n, k) ==
    IF k * MAX_BATCH_SIZE <= n THEN MAX_BATCH_SIZE
    ELSE IF (k - 1) * MAX_BATCH_SIZE < n THEN n - (k - 1) * MAX_BATCH_SIZE
    ELSE 0
CeilDiv(n, d) == (n + d - 1) \div d

\* C6: no executed batch is empty or holds more than 50 requests; when no
\* execution leaves a residue, the k-th execution is of the k-th consecutive
\* group of 50 (the last one of N mod 50), and a finished run has made exactly
\* ceil(N/50) executions.
C6_BatchSizes ==
    /\ \A k \in 1..Len(exec_log) :
          /\ Len(exec_log[k].requests) >= 1
          /\ Len(exec_log[k].requests) <= MAX_BATCH_SIZE
    /\ NoResidue =>
          /\ \A k \in 1..Len(exec_log) :
                exec_log[k].requests = Range((k - 1) * MAX_BATCH_SIZE + 1, GroupSize(n_pending, k))
          /\ pc = "done" => Len(exec_log) = CeilDiv(n_pending, MAX_BATCH_SIZE)

\* C6's case: 120 requests, executed as 50, 50, 20
C6_Witness ==
    /\ pc = "done"
    /\ n_pending = 120
    /\ NoResidue
    /\ ExecSizes = <<50, 50, 20>>

\* C7: what is yielded is, in order, what the success callback was given: a
\* prefix of it while the run lasts, all of it when the run is over, and no
\* payload twice.
C7_YieldedAreSuccesses ==
    /\ Len(yielded) <= Len(succeeded)
    /\ yielded = SubSeq(succeeded, 1, Len(yielded))
    /\ Cardinality(SeqToSet(yielded)) = Len(yielded)
    /\ pc = "done" => yielded = succeeded

\* C7's case: a finished run over several batches with a re-executed residue
\* and a dropped request
C7_Witness ==
    /\ pc = "done"
    /\ n_pending > 2 * MAX_BATCH_SIZE
    /\ ~NoResidue
    /\ failed # {}
    /\ Len(yielded) = n_pending - Cardinality(failed)

\* C8: a request handed to the failure callback is never yielded, the run goes
\* on after it, and when the run is over every other request's payload has been
\* yielded.
C8_FailureDropsOnlyItsRequest ==
    /\ \A r \in failed : r \notin SeqToSet(yielded) /\ r \notin SeqToSet(records)
    /\ pc = "done" => SeqToSet(yielded) = (1..n_pending) \ failed
    /\ failed # {} => (pc = "done" \/ ENABLED NextB)

\* C8's case: a request of the first batch failed and the run finished
C8_Witness ==
    /\ pc = "done"
    /\ n_pending > MAX_BATCH_SIZE
    /\ \E r \in failed : BatchOf(r) = 0
    /\ \E i \in 1..Len(yielded) : BatchOf(yielded[i]) = 0
    /\ \E i \in 1..Len(yielded) : BatchOf(yielded[i]) = 1

\* C9: nothing of the current batch is yielded while requests are added to it
\* or it is executed; by then every payload of the batches before it has been
\* yielded; yielding starts only from an empty residue; and the yielded
\* payloads come batch by batch.
C9_YieldAfterSettle ==
    /\ pc \in {"iterate", "execute"} =>
          /\ SeqToSet(api_batch) \cap SeqToSet(yielded) = {}
          /\ SeqToSet(succeeded) \subseteq (SeqToSet(api_batch) \cup SeqToSet(yielded))
    /\ pc = "yield" =>
          /\ batch = <<>>
          /\ exec_log # <<>> => exec_log[Len(exec_log)].residue = <<>>
          /\ SeqToSet(records) \subseteq SeqToSet(api_batch)
    /\ \A i \in 1..(Len(yielded) - 1) : BatchOf(yielded[i]) <= BatchOf(yielded[i + 1])

\* C9's case: the second batch left a residue, the first batch's payloads are
\* out and none of the second's
C9_Witness ==
    /\ pc = "execute"
    /\ Len(exec_log) >= 2
    /\ exec_log[Len(exec_log)].residue # <<>>
    /\ BatchOf(Head(batch)) = 1
    /\ yielded # <<>>
    /\ Len(records) > 0

\* C10: a non-empty residue is what the next execute() is given, whole and in
\* order, and until then _execute_batch is still looping on it; a finished run
\* has settled every request as success or failure.
C10_ResidueReexecuted ==
    /\ \A k \in 1..Len(exec_log) :
          exec_log[k].residue # <<>> =>
              IF k < Len(exec_log)
              THEN exec_log[k + 1].requests = exec_log[k].residue
              ELSE pc = "execute" /\ batch = exec_log[k].residue
    /\ pc = "done" => SeqToSet(succeeded) \cup failed = 1..n_pending

\* C10's case: a residue that left a residue again, both re-executed
C10_Witness ==
    /\ pc = "done"
    /\ \E k \in 1..(Len(exec_log) - 2) :
          /\ exec_log[k].residue # <<>>
          /\ exec_log[k + 1].residue # <<>>
          /\ exec_log[k + 2].requests = exec_log[k + 1].residue

\* the one clause _filter_all_statuses stands for
StatusClause(k) ==
    [field |-> <<entity_prefix(k), "delivery_info">>, operator |-> "IN", value |-> filt_values]

\* C11: FBMarketingStream.request_params always sets limit to the page size
\* (100) and returns the IN clause over the 14 status values on
\* '{entity_prefix}.delivery_info' exactly when the stream kind supports
\* deleted records and include_deleted was passed as true; AdCreatives, which
\* has no such support, never gets a status clause whatever was passed.
C11_BaseRequestParams ==
    read_pc # "idle" =>
        /\ "limit" \in DOMAIN super_params
        /\ super_params.limit = page_size
        /\ page_size = 100
        /\ Len(filt_values) = 14
        /\ IF enable_deleted(kind) /\ arg_include_deleted
           THEN /\ "filtering" \in DOMAIN super_params
                /\ super_params.filtering = <<StatusClause(kind)>>
           ELSE "filtering" \notin DOMAIN super_params
        /\ kind = "AdCreatives" => (params = super_params /\ DOMAIN params = {"limit"})

C11_Witness ==
    /\ read_pc # "idle"
    /\ kind = "Ads"
    /\ arg_include_deleted
    /\ "filtering" \in DOMAIN super_params

\* C12: read_records yields records in listing order: of any two listed
\* entities that both yield a record, the one listed first is yielded first,
\* in inline mode and in batch mode, also when requests of a batch are
\* executed again as residue.
C12_ListingOrder ==
    \A i \in 1..(Len(output) - 1) : output[i].id < output[i + 1].id

\* C13: for a finite listing every read_records invocation eventually
\* finishes (it returns, or ends by raising), in inline mode and in batch
\* mode alike: every batch eventually settles and the last, partial batch is
\* flushed.
C13_ReadFinishes == <>(read_pc \in {"done", "raised"})

\* C14 as stated: when the override fires in a state update, the cursor of the
\* resulting state is the stream's configured start date.
C14_OverrideResetsToStartDate ==
    OverrideFired => CursorInstant(stream_state) = _start_date.inst

\* C14, amended: when the override fires in a state update, the cursor of the
\* resulting state is the instant (and offset) of the record just processed,
\* whatever the start date is; what goes back to the start date is the
\* threshold _state_filter computes for the state the update started from.
C14_OverrideTakesRecordNotStartDate ==
    OverrideFired =>
        /\ CursorInstant(stream_state) = latest_record.inst
        /\ parse(stream_state[cursor_field]).off = latest_record.off
        /\ _state_filter(kind, _include_deleted, _start_date, prior_state).filtering[1].value
               = int_timestamp(_start_date)

\* C14's case: the override fires and leaves a cursor that is neither the
\* start date nor the prior cursor
C14_Witness ==
    /\ OverrideFired
    /\ HasCursor(prior_state)
    /\ CursorInstant(stream_state) # _start_date.inst
    /\ CursorInstant(stream_state) # CursorInstant(prior_state)
    /\ int_timestamp(parse(stream_state[cursor_field])) # int_timestamp(_start_date)

\* C15: for AdCreatives with fetch_thumbnail_images set, a thumbnail fetch
\* that fails (a response other than 200, or a request exception) leaves
\* thumbnail_data_url null and raises nothing, and the record is still
\* yielded in its position; with the flag unset no fetch is made and the
\* record is yielded as execute_in_batch handed it over.
C15_ThumbnailFaultsSwallowed ==
    kind = "AdCreatives" =>
        IF _fetch_thumbnail_images
        THEN /\ Len(fetch_log) \in {Len(output), Len(output) + 1}
             /\ \A i \in 1..Len(output) :
                    /\ output[i].id = yielded[i]
                    /\ "thumbnail_data_url" \in DOMAIN output[i]
                    /\ fetch_log[i] \in {"NOT_FOUND", "RequestException"}
                           => output[i]["thumbnail_data_url"] = Null
             /\ Len(fetch_log) > Len(output)
                    => fetch_log[Len(fetch_log)] \notin {"NOT_FOUND", "RequestException"}
             /\ read_pc = "raised" => fetch_log[Len(fetch_log)] = "OK_no_content_type"
        ELSE /\ fetch_log = <<>>
             /\ read_pc # "raised"
             /\ \A i \in 1..Len(output) : output[i] = [id |-> yielded[i]]

\* C15's case: a fetch got a 404, a later one raised a request exception, and
\* the records around them were all yielded
C15_Witness ==
    /\ kind = "AdCreatives"
    /\ _fetch_thumbnail_images
    /\ read_pc = "done"
    /\ Len(output) = MAX_BATCH_SIZE + 1
    /\ fetch_log[1] = "NOT_FOUND"
    /\ fetch_log[2] = "OK"
    /\ fetch_log[Len(fetch_log)] = "RequestException"
    /\ output[1]["thumbnail_data_url"] = Null
    /\ output[2]["thumbnail_data_url"] # Null

\* include_deleted is in effect and the state the caller first held does not
\* say so
NewlyEnabled == potentially_new_records_in_the_past(_include_deleted, first_state)

\* C16: after include_deleted is newly enabled, every read_records
\* invocation made before a pass has run to completion uses startDate as its
\* threshold, also one that restarts an interrupted pass from a state
\* checkpointed after get_updated_state calls of that pass.
C16_FilterOffForOneFullPass ==
    (NewlyEnabled /\ ~pass_completed /\ pass_pc = "reading")
        => state_filter.filtering[1].value = int_timestamp(_start_date)

\* C17: for an incremental stream with include_deleted in effect, the
\* filtering list request_params returns holds both the status IN clause on
\* '{entity_prefix}.delivery_info' and the GREATER_THAN clause on
\* '{entity_prefix}.{cursor_field}': the merge neither drops nor overwrites
\* the status clause, and limit is kept.
C17_BothClausesAfterMerge ==
    (params_fresh /\ _include_deleted) =>
        /\ DOMAIN params = {"limit", "filtering"}
        /\ params.limit = page_size
        /\ Len(params.filtering) = 2
        /\ \E i \in 1..Len(params.filtering) : params.filtering[i] = StatusClause(kind)
        /\ \E i \in 1..Len(params.filtering) :
               /\ params.filtering[i].operator = "GREATER_THAN"
               /\ params.filtering[i].field = <<entity_prefix(kind), cursor_field>>
               /\ params.filtering[i] = state_filter.filtering[1]

\* C17's case: Campaigns with include_deleted, asked for the parameters of a
\* state that has a cursor
C17_Witness ==
    /\ params_fresh
    /\ _include_deleted
    /\ kind = "Campaigns"
    /\ HasCursor(stream_state)
    /\ Len(params.filtering) = 2
    /\ params.filtering[1].operator = "IN"

MaxInt(a, b) == IF a >= b THEN a ELSE b

\* C18: after records r1..rn went through get_updated_state, each call fed
\* the state the one before returned, the cursor is max(r1..rn) when the
\* first state had no cursor or the override fired on r1 (whatever cursor C
\* the first state had), and max(C, r1..rn) otherwise.
C18_FoldIsMax ==
    Updated =>
        CursorInstant(stream_state) =
            IF NewlyEnabled \/ ~HasCursor(first_state)
            THEN max_record
            ELSE MaxInt(CursorInstant(first_state), max_record)

\* C18's case: the override fired on r1, below the first cursor, and the
\* records after r1 went up and down
C18_Witness ==
    /\ NewlyEnabled
    /\ HasCursor(first_state)
    /\ n_updates >= 3
    /\ CursorInstant(first_state) > max_record
    /\ latest_record.inst < max_record
    /\ CursorInstant(stream_state) = max_record

\* C19: get_updated_state and request_params leave the state mapping passed
\* to them as it was and leave the stream's configuration (its kind, the
\* effective include_deleted flag, the start and end dates) as it was; the
\* stream keeps nothing else between calls, so what a call returns is decided
\* by the state (and record) it is given.
C19_CallsLeaveStateAndConfig ==
    [][/\ passed_state' = stream_state
       /\ kind' = kind
       /\ _include_deleted' = _include_deleted
       /\ _start_date' = _start_date
       /\ _end_date' = _end_date
       /\ stream_state' # stream_state
              => stream_state' = get_updated_state(_include_deleted', stream_state,
                                                   latest_record')
       /\ params' # params
              => params' = request_params(kind', _include_deleted', _start_date', passed_state')
      ]_vars

\* C19's case: a get_updated_state call returned a state other than the one
\* it was passed, a request_params call followed, and the mapping handed to
\* each came back as it went in
C19_Witness ==
    /\ Updated
    /\ params_fresh
    /\ stream_state # prior_state
    /\ HasCursor(prior_state)
    /\ passed_state = stream_state
    /\ _end_date.inst = MaxInstant

=============================================================================
